---- MODULE Spec2Model ----
(***************************************************************************)
(* Model of src/index.js: the Color class (an HSV colour) and its          *)
(* derivation methods complementary, splitComplementary, triadic,          *)
(* tetradic, monochromatic and analogous.                                  *)
(*                                                                         *)
(* Hues are integers.  Saturation and value are exact rationals, kept as   *)
(* reduced pairs <<numerator, denominator>> with a positive denominator,   *)
(* so the arithmetic of monochromatic is the arithmetic of the reals, not  *)
(* of IEEE doubles.  A call is one step: idle -> done; Discard drops the   *)
(* result and makes the receiver available for the next call.              *)
(***************************************************************************)
EXTENDS Integers, Sequences, FiniteSets

VARIABLES self, pc, op, n, d, result, err

vars == <<self, pc, op, n, d, result, err>>

\* ---------------------------------------------------------------- bounds
\* hues range over -MaxNegHue..MaxHue, counts over -MaxNegN..MaxN (analogous)
\* and -MaxNegN..MaxMonoN (monochromatic), directions over -MaxAbsD..MaxAbsD
MaxNegHue == 400
MaxHue == 400
MaxNegN == 1
MaxN == 12
MaxMonoN == 3
MaxAbsD == 2

\* ------------------------------------------------------ exact rationals
Abs(x) == IF x < 0 THEN -x ELSE x

RECURSIVE Gcd(_, _)
Gcd(a, b) == IF b = 0 THEN a ELSE Gcd(b, a % b)

\* the reduced pair of p/q, q # 0
Rat(p, q) ==
    LET g == Gcd(Abs(p), Abs(q))
        sg == IF q < 0 THEN -1 ELSE 1
    IN  <<(sg * p) \div g, (sg * q) \div g>>

\* the value a JavaScript division by zero leaves (Infinity or NaN)
NonFinite == <<0, 0>>

RAdd(a, b) == Rat(a[1] * b[2] + b[1] * a[2], a[2] * b[2])
RSub(a, b) == Rat(a[1] * b[2] - b[1] * a[2], a[2] * b[2])
RMul(a, b) == Rat(a[1] * b[1], a[2] * b[2])
RDiv(a, b) == IF b[1] = 0 THEN NonFinite ELSE Rat(a[1] * b[2], a[2] * b[1])
RInt(k) == <<k, 1>>
RLess(a, b) == a[1] * b[2] < b[1] * a[2]

\* the number literals of monochromatic
One == RInt(1)
Fifth == Rat(2, 10)

\* ------------------------------------------------- JavaScript operators
\* a % b of JavaScript for integers, b > 0: the remainder takes the sign
\* of the dividend (-0 and 0 are the same integer here)
JsRem(a, b) == IF a >= 0 THEN a % b ELSE -((-a) % b)

\* Math.round(k / 2) for an integer k: floor(k/2 + 1/2)
RoundHalf(k) == (k + 1) \div 2

\* ----------------------------------------------------------------- Color
Color(h, s, v) == [h |-> h, s |-> s, v |-> v]

\* a complementary that forgets to wrap the hue
complementary_noWrap(c) == Color(c.h + 180, c.s, c.v)

complementary(c) == Color(JsRem(c.h + 180, 360), c.s, c.v)

splitComplementary(c) ==
    << Color(JsRem(c.h + 150, 360), c.s, c.v),
       Color(JsRem(c.h + 210, 360), c.s, c.v) >>

\* a triadic that returns its two colors in the other order
triadic_swapped(c) ==
    << Color(JsRem(c.h + 240, 360), c.s, c.v),
       Color(JsRem(c.h + 120, 360), c.s, c.v) >>

triadic(c) ==
    << Color(JsRem(c.h + 120, 360), c.s, c.v),
       Color(JsRem(c.h + 240, 360), c.s, c.v) >>

\* a tetradic that passes value and saturation in the wrong order
tetradic_swapSV(c) ==
    << Color(JsRem(c.h + 90, 360), c.v, c.s),
       Color(JsRem(c.h + 180, 360), c.v, c.s),
       Color(JsRem(c.h + 270, 360), c.v, c.s) >>

tetradic(c) ==
    << Color(JsRem(c.h + 90, 360), c.s, c.v),
       Color(JsRem(c.h + 180, 360), c.s, c.v),
       Color(JsRem(c.h + 270, 360), c.s, c.v) >>

\* the outcome of a call: the error thrown ("" when the call returns) and
\* the colors array as it stands when the call ends
Outcome(e, cs) == [error |-> e, colors |-> cs]

\* a monochromatic that validates d only after the loop has filled colors
monochromatic_lateCheck(c, k, dir) ==
    LET vStep == IF dir = -1 THEN RDiv(RSub(c.v, Fifth), RInt(k))
                             ELSE RDiv(RSub(One, c.v), RInt(k))
        sStep == IF dir = -1 THEN RDiv(RSub(c.s, Fifth), RInt(k))
                             ELSE RDiv(RSub(One, c.s), RInt(k))
        colors == [i \in 1..k |->
                     Color(c.h,
                           RAdd(c.s, RMul(RMul(RInt(dir), sStep), RInt(i))),
                           RAdd(c.v, RMul(RMul(RInt(dir), vStep), RInt(i))))]
    IN  IF dir \notin {-1, 1}
        THEN Outcome("d must be -1 or 1", colors)
        ELSE Outcome("", colors)

monochromatic(c, k, dir) ==
    LET vStep == IF dir = -1 THEN RDiv(RSub(c.v, Fifth), RInt(k))
                             ELSE RDiv(RSub(One, c.v), RInt(k))
        sStep == IF dir = -1 THEN RDiv(RSub(c.s, Fifth), RInt(k))
                             ELSE RDiv(RSub(One, c.s), RInt(k))
    IN  IF dir \notin {-1, 1}
        THEN Outcome("d must be -1 or 1", <<>>)
        ELSE Outcome("",
                 [i \in 1..k |->
                     Color(c.h,
                           RAdd(c.s, RMul(RMul(RInt(dir), sStep), RInt(i))),
                           RAdd(c.v, RMul(RMul(RInt(dir), vStep), RInt(i))))])

\* an analogous that rounds n / 2 down
analogous_floorHalf(c, k) ==
    LET half == k \div 2
        pos == [i \in 1..half |-> Color(JsRem(c.h + 30 * i, 360), c.s, c.v)]
        neg == [i \in 1..(k - half) |->
                   Color(JsRem(c.h - 30 * i, 360), c.s, c.v)]
    IN  pos \o neg

\* an analogous that renormalizes every hue into [0,360)
analogous_normalized(c, k) ==
    LET half == RoundHalf(k)
        pos == [i \in 1..half |-> Color((c.h + 30 * i) % 360, c.s, c.v)]
        neg == [i \in 1..(k - half) |->
                   Color((c.h - 30 * i) % 360, c.s, c.v)]
    IN  pos \o neg

analogous(c, k) ==
    LET half == RoundHalf(k)
        pos == [i \in 1..half |-> Color(JsRem(c.h + 30 * i, 360), c.s, c.v)]
        neg == [i \in 1..(k - half) |->
                   Color(JsRem(c.h - 30 * i, 360), c.s, c.v)]
    IN  pos \o neg

\* ---------------------------------------------------------------- inputs
Hues == (-MaxNegHue)..MaxHue
SVals == {Rat(0, 1), Rat(1, 10), Rat(1, 5), Rat(1, 2), Rat(9, 10), Rat(1, 1)}
Counts == (-MaxNegN)..MaxN
MonoCounts == (-MaxNegN)..MaxMonoN
Dirs == (-MaxAbsD)..MaxAbsD

\* ------------------------------------------------------- state machine
Init ==
    /\ self \in {Color(h, s, v) : h \in Hues, s \in SVals, v \in SVals}
    /\ pc = "idle"
    /\ op = "new"
    /\ n = 0
    /\ d = 0
    /\ result = <<>>
    /\ err = ""

Call(name, k, dir, out) ==
    /\ pc = "idle"
    /\ pc' = "done"
    /\ op' = name
    /\ n' = k
    /\ d' = dir
    /\ result' = out.colors
    /\ err' = out.error
    /\ UNCHANGED self

Complementary == Call("complementary", 0, 0, Outcome("", <<complementary(self)>>))

SplitComplementary ==
    Call("splitComplementary", 0, 0, Outcome("", splitComplementary(self)))

Triadic == Call("triadic", 0, 0, Outcome("", triadic(self)))

Tetradic == Call("tetradic", 0, 0, Outcome("", tetradic(self)))

Monochromatic ==
    \E k \in MonoCounts, dir \in Dirs :
        Call("monochromatic", k, dir, monochromatic(self, k, dir))

Analogous ==
    \E k \in Counts : Call("analogous", k, 0, Outcome("", analogous(self, k)))

\* the caller drops the returned array; the receiver is ready for another call
Discard ==
    /\ pc = "done"
    /\ pc' = "idle"
    /\ op' = "new"
    /\ n' = 0
    /\ d' = 0
    /\ result' = <<>>
    /\ err' = ""
    /\ UNCHANGED self

Next ==
    \/ Complementary
    \/ SplitComplementary
    \/ Triadic
    \/ Tetradic
    \/ Monochromatic
    \/ Analogous
    \/ Discard

Spec == Init /\ [][Next]_vars

TypeOK ==
    /\ pc \in {"idle", "done"}
    /\ self.h \in Hues
    /\ n \in Counts \cup {0}
    /\ d \in Dirs \cup {0}
    /\ err \in {"", "d must be -1 or 1"}
    /\ \A i \in 1..Len(result) : result[i].h \in Int

\* ------------------------------------------------------------ properties
Done(name) == pc = "done" /\ op = name

HueShifting ==
    {"complementary", "splitComplementary", "triadic", "tetradic", "analogous"}

FixedOffset == {"complementary", "splitComplementary", "triadic", "tetradic"}

InWheel(h) == h \in 0..359

Hue(i) == result[i].h

\* r is the truncating, sign-preserving remainder of x by m (m > 0), stated
\* by what a remainder is and not by how JsRem computes it: x - r is a
\* multiple of m, r is smaller than m in magnitude, and r is on x's side
\* of zero
IsTruncRem(r, x, m) ==
    /\ (x - r) % m = 0
    /\ Abs(r) < m
    /\ (x >= 0 => r >= 0)
    /\ (x <= 0 => r <= 0)

\* C1: monochromatic(n, d) with d other than 1 and -1 ends in the error
\* "d must be -1 or 1" with no color produced and the receiver unchanged.
C1_InvalidDirection ==
    [][ (pc = "idle" /\ pc' = "done" /\ op' = "monochromatic"
            /\ d' \notin {-1, 1})
        => (err' = "d must be -1 or 1" /\ result' = <<>> /\ self' = self) ]_vars

\* monochromatic(3, 2) has been called and has thrown
C1_Witness ==
    /\ Done("monochromatic")
    /\ n = 3
    /\ d = 2
    /\ err = "d must be -1 or 1"

\* C2: every color returned by complementary, splitComplementary, triadic,
\* tetradic and analogous has exactly the receiver's s and v.
C2_SVPreserved ==
    (pc = "done" /\ op \in HueShifting)
        => \A i \in 1..Len(result) :
               result[i].s = self.s /\ result[i].v = self.v

\* tetradic has returned three colors of other hues for a receiver whose
\* s and v differ
C2_Witness ==
    /\ Done("tetradic")
    /\ self.s # self.v
    /\ Len(result) = 3
    /\ \A i \in 1..3 : Hue(i) # self.h /\ result[i].s = self.s

\* C3: the complementary of the complementary has a hue congruent to the
\* receiver's modulo 360, equal to it when the receiver's hue is in
\* [0,360), and the receiver's s and v.
C3_ComplementaryTwice ==
    Done("complementary")
        => LET back == complementary(result[1])
           IN  /\ (back.h - self.h) % 360 = 0
               /\ (InWheel(self.h) => back.h = self.h)
               /\ back.s = self.s
               /\ back.v = self.v

\* complementary has wrapped a hue of [180,360) around the wheel, and a
\* second application brings it back
C3_Witness ==
    /\ Done("complementary")
    /\ self.h \in 180..359
    /\ Hue(1) = self.h - 180
    /\ complementary(result[1]).h = self.h

RatIs(a, p, q) == a[1] * q = a[2] * p

\* C6: monochromatic(n, 1), n >= 1, returns n colors of the receiver's hue,
\* the i-th with s + i*(1-s)/n and v + i*(1-v)/n, strictly increasing in i
\* when s, v < 1; monochromatic(n, -1) returns n colors of the receiver's
\* hue, the i-th with s - i*(s-0.2)/n and v - i*(v-0.2)/n, strictly
\* decreasing in i; s and v anywhere in [0,1].
C6_Monochromatic ==
    (Done("monochromatic") /\ n >= 1 /\ d \in {-1, 1})
        => LET sp == self.s[1]
               sq == self.s[2]
               vp == self.v[1]
               vq == self.v[2]
           IN  /\ err = ""
               /\ Len(result) = n
               /\ \A i \in 1..n : Hue(i) = self.h
               /\ (d = 1) =>
                      /\ \A i \in 1..n :
                             /\ RatIs(result[i].s, sp * n + i * (sq - sp), sq * n)
                             /\ RatIs(result[i].v, vp * n + i * (vq - vp), vq * n)
                      /\ RLess(self.s, One) =>
                             \A i \in 1..(n - 1) :
                                 RLess(result[i].s, result[i + 1].s)
                      /\ RLess(self.v, One) =>
                             \A i \in 1..(n - 1) :
                                 RLess(result[i].v, result[i + 1].v)
               /\ (d = -1) =>
                      /\ \A i \in 1..n :
                             /\ RatIs(result[i].s,
                                      5 * sp * n - i * (5 * sp - sq), 5 * sq * n)
                             /\ RatIs(result[i].v,
                                      5 * vp * n - i * (5 * vp - vq), 5 * vq * n)
                      /\ \A i \in 1..(n - 1) :
                             /\ RLess(result[i + 1].s, result[i].s)
                             /\ RLess(result[i + 1].v, result[i].v)

Half == Rat(1, 2)

DocColor == Color(180, Half, Half)

\* C7: splitComplementary on Color(180, 0.5, 0.5) returns hsv(150,0.5,0.5)
\* and then hsv(210,0.5,0.5).
C7_SplitComplementaryExample ==
    (Done("splitComplementary") /\ self = DocColor)
        => result = <<Color(150, Half, Half), Color(210, Half, Half)>>

\* C8: tetradic on Color(180, 0.5, 0.5) returns hsv(90,0.5,0.5),
\* hsv(0,0.5,0.5) and hsv(270,0.5,0.5), in that order.
C8_TetradicExample ==
    (Done("tetradic") /\ self = DocColor)
        => result = <<Color(90, Half, Half), Color(0, Half, Half),
                      Color(270, Half, Half)>>

\* C9: analogous(3) on Color(180, 0.5, 0.5) returns hsv(210,0.5,0.5),
\* hsv(150,0.5,0.5) and hsv(120,0.5,0.5): one color on the positive side,
\* two on the negative side.
C9_AnalogousExample ==
    (Done("analogous") /\ n = 3 /\ self = DocColor)
        => result = <<Color(210, Half, Half), Color(150, Half, Half),
                      Color(120, Half, Half)>>

\* the offset added to the receiver's hue for the i-th returned color
Offset(i) ==
    CASE op = "complementary" -> 180
      [] op = "splitComplementary" -> <<150, 210>>[i]
      [] op = "triadic" -> <<120, 240>>[i]
      [] op = "tetradic" -> <<90, 180, 270>>[i]
      [] op = "analogous" ->
            LET half == (n + 1) \div 2
            IN  IF i <= half THEN 30 * i ELSE -30 * (i - half)

\* C10 as stated: every returned hue is negative whenever h + offset is
\* negative and in [0,360) whenever h + offset is non-negative; the
\* fixed-offset schemes keep a hue of [0,360) in [0,360).
C10_NegativeWheneverNegative ==
    (pc = "done" /\ op \in HueShifting)
        => \A i \in 1..Len(result) :
               LET x == self.h + Offset(i)
               IN  /\ (x < 0) => Hue(i) < 0
                   /\ (x >= 0) => InWheel(Hue(i))
                   /\ (op \in FixedOffset /\ InWheel(self.h))
                          => InWheel(Hue(i))

\* C10 amended: every returned hue is negative whenever h + offset is
\* negative and not a multiple of 360, zero when h + offset is a negative
\* multiple of 360, and in [0,360) whenever h + offset is non-negative; the
\* fixed-offset schemes keep a hue of [0,360) in [0,360).
C10_SignPreserving ==
    (pc = "done" /\ op \in HueShifting)
        => \A i \in 1..Len(result) :
               LET x == self.h + Offset(i)
               IN  /\ (x < 0 /\ x % 360 # 0) => Hue(i) < 0
                   /\ (x < 0 /\ x % 360 = 0) => Hue(i) = 0
                   /\ (x >= 0) => InWheel(Hue(i))
                   /\ (op \in FixedOffset /\ InWheel(self.h))
                          => InWheel(Hue(i))

\* analogous on a hue of [0,360) has returned a color whose hue is negative
C10_Witness ==
    /\ Done("analogous")
    /\ InWheel(self.h)
    /\ \E i \in 1..Len(result) :
           self.h + Offset(i) < 0 /\ Hue(i) < 0 /\ ~InWheel(Hue(i))
====
